---- MODULE Spec2Model ----
(***************************************************************************)
(* ClearStream AI (app-sora): the session controller of App.tsx, the frame *)
(* extractor extractFirstFrame and the generation client                   *)
(* generateCleanVideo, as one state machine.  User events, media events,   *)
(* timers and network completions are the actions; every action runs the   *)
(* code from one suspension point to the next.                             *)
(***************************************************************************)
EXTENDS Integers, Sequences, FiniteSets, TLC

(* ------------------------------ bounds --------------------------------- *)
\* files accepted by handleFileChange in one run
MaxUploads == 2
\* generateCleanVideo calls started in one run
MaxGens == 2
\* poll calls issued by one generateCleanVideo call
MaxPolls == 2

(* --------------------------- program constants ------------------------- *)
maxDimension == 1024

\* JavaScript null, for a file, an object URL and a frame
NoFile == [type |-> "", width |-> 0, height |-> 0]

NoUrl == [kind |-> "null", id |-> 0]

NoFrame == [upload |-> 0, file |-> NoFile, width |-> 0, height |-> 0]

(* ------------------------------- files --------------------------------- *)
\* A file is its declared type and the size its video decodes to.
Mp4(w, h) == [type |-> "video/mp4", width |-> w, height |-> h]

\* The files the user can pick: a wide 4000x2000 MP4, a tall 600x800 MP4, an
\* MP4 whose dimensions decode as 0x0 and a QuickTime file.
Files ==
    {Mp4(4000, 2000), Mp4(600, 800), Mp4(0, 0),
     [type |-> "video/quicktime", width |-> 640, height |-> 480]}

\* native widths and heights: around 0, around maxDimension, where the
\* quotient maxDimension / m is rounded down (1121..1123), and large ones
Dims ==
    (0 .. 3) \cup {512, 600, 800} \cup (1022 .. 1027) \cup (1120 .. 1123)
        \cup {2000, 2001, 4000}

\* MP4 files of every size in Dims x Dims
Videos == {Mp4(w, h) : w \in Dims, h \in Dims}

FileType(f) == f.type

videoWidth(f) == f.width

videoHeight(f) == f.height

(* ------------------------ text as token sequences ---------------------- *)
\* A text is the sequence of the substrings of it the code can tell apart.
Includes(text, token) == \E i \in 1..Len(text) : text[i] = token

\* String.prototype.trim on a sequence of characters
RECURSIVE TrimLeft(_)
TrimLeft(s) == IF s # <<>> /\ Head(s) = " " THEN TrimLeft(Tail(s)) ELSE s

RECURSIVE TrimRight(_)
TrimRight(s) ==
    IF s # <<>> /\ s[Len(s)] = " " THEN TrimRight(SubSeq(s, 1, Len(s) - 1)) ELSE s

Trim(s) == TrimRight(TrimLeft(s))

\* what the user can type in the description box
Prompts == {<<>>, <<" ">>, <<"a">>}

(* --------------------- Math.floor(d * (1024 / m)) ---------------------- *)
\* The code multiplies by the double nearest to 1024/m.  When d*1024/m is
\* no integer the floor is the exact one; when it is an integer k the
\* product is k unless the quotient was rounded down far enough for the
\* product to round below k.
RECURSIVE BitLen(_)
BitLen(n) == IF n = 0 THEN 0 ELSE 1 + BitLen(n \div 2)

RECURSIVE Pow2(_)
Pow2(n) == IF n = 0 THEN 1 ELSE 2 * Pow2(n - 1)

RECURSIVE Pow2Mod(_, _)
Pow2Mod(n, m) == IF n = 0 THEN 1 % m ELSE (2 * Pow2Mod(n - 1, m)) % m

IsPow2(m) == Pow2(BitLen(m) - 1) = m

ProductBelow(d, m, k) ==
    LET L == BitLen(m)
        r == Pow2Mod(52 + L, m)
        j == BitLen(k - 1) - 1
        e == 11 - L - j
    IN  /\ ~IsPow2(m)
        /\ 2 * r < m
        /\ IF e >= 0 THEN d * r * Pow2(e) > m ELSE d * r > m * Pow2(0 - e)

ScaleDim(d, m) ==
    LET k == (d * maxDimension) \div m
    IN  IF (d * maxDimension) % m # 0 \/ k = 0 THEN k
        ELSE IF ProductBelow(d, m, k) THEN k - 1 ELSE k

Max(a, b) == IF a >= b THEN a ELSE b

\* a width that is scaled whatever the size
FrameWidthAlwaysScaled(w, h) == ScaleDim(w, Max(w, h))

\* lines 50-62
FrameWidth(w, h) ==
    IF w > maxDimension \/ h > maxDimension THEN ScaleDim(w, Max(w, h)) ELSE w

FrameHeight(w, h) ==
    IF w > maxDimension \/ h > maxDimension THEN ScaleDim(h, Max(w, h)) ELSE h

(* ------------------------------- state --------------------------------- *)
VARIABLES
    videoFile,          \* useState: the selected file, or NoFile
    videoPreviewUrl,    \* useState: the preview object URL, or NoUrl
    prompt,             \* useState: the description text
    processingState,    \* useState: [status, error]
    generatedVideoUrl,  \* useState: the generated video's object URL, or NoUrl
    extractedFrame,     \* useState: the extracted frame, or NoFrame
    mounted,            \* the App component is mounted
    apiKey,             \* process.env.API_KEY is set
    uploads,            \* extractFirstFrame calls made so far
    gens,               \* generateCleanVideo calls made so far
    extractions,        \* the unsettled extractFirstFrame calls, by call number
    generations,        \* the unsettled generateCleanVideo calls, by call number
    liveUrls,           \* object URLs created by App or the client, not revoked
    alert               \* the open alert box, or NoAlert

session == <<videoFile, videoPreviewUrl, prompt, processingState,
             generatedVideoUrl, extractedFrame>>

vars == <<videoFile, videoPreviewUrl, prompt, processingState,
          generatedVideoUrl, extractedFrame, mounted, apiKey, alert, uploads, gens,
          extractions, generations, liveUrls, alert>>

\* the calls in flight: a settled call holds no state
NoCalls == [i \in {} |-> 0]

Put(calls, i, call) ==
    [j \in DOMAIN calls \cup {i} |-> IF j = i THEN call ELSE calls[j]]

Drop(calls, i) == [j \in DOMAIN calls \ {i} |-> calls[j]]

NoText == <<>>

NoAlert == "none"

Mp4Alert == "Por favor, envie apenas arquivos MP4."

DescribeAlert == "Por favor, descreva brevemente o conteudo do video"

State(s) == [status |-> s, error |-> NoText]

ErrorState(text) == [status |-> "error", error |-> text]

Init ==
    /\ videoFile = NoFile
    /\ videoPreviewUrl = NoUrl
    /\ prompt = <<>>
    /\ processingState = State("idle")
    /\ generatedVideoUrl = NoUrl
    /\ extractedFrame = NoFrame
    /\ mounted = TRUE
    /\ apiKey \in BOOLEAN
    /\ uploads = 0
    /\ gens = 0
    /\ extractions = NoCalls
    /\ generations = NoCalls
    /\ liveUrls = {}
    /\ alert = NoAlert

(* ------------------------- extractFirstFrame --------------------------- *)
TimeoutError == <<"Tempo limite excedido">>

DecodeError == <<"Erro ao decodificar o video">>

DimensionsError == <<"Dimensoes de video invalidas">>

ContextError == <<"contexto do canvas">>

EncodeError == <<"DOMException">>

\* the call's state when the Promise executor returns: the timer is armed,
\* the object URL is created and the three handlers are attached
ExtractionStarted(f) ==
    [file |-> f, pc |-> "loading", timer |-> TRUE, url |-> TRUE,
     attached |-> TRUE]

\* a cleanup that leaves the object URL alone
cleanupKeepsUrl(e) == [e EXCEPT !.timer = FALSE, !.attached = FALSE]

\* lines 22-29
cleanup(e) == [e EXCEPT !.timer = FALSE, !.url = FALSE, !.attached = FALSE]

\* the call after resolve or reject: nothing of it may be left
Settled(e) == ~e.timer /\ ~e.url /\ ~e.attached

\* resolve or reject after cleanup: the call is over once it holds nothing
Settle(i, e) == IF Settled(e) THEN Drop(extractions, i) ELSE Put(extractions, i, e)

Frame(i, f) ==
    [upload |-> i, file |-> f,
     width |-> FrameWidth(videoWidth(f), videoHeight(f)),
     height |-> FrameHeight(videoWidth(f), videoHeight(f))]

\* what the browser's canvas does for one frame: it works, getContext
\* returns null, or toDataURL throws
Canvases == {"ok", "no context", "encode throws"}

\* what the seeked handler throws, lines 49-79
SeekedError(f, canvas) ==
    IF videoWidth(f) = 0 \/ videoHeight(f) = 0 THEN DimensionsError
    ELSE IF canvas = "no context" THEN ContextError
    ELSE IF canvas = "encode throws" THEN EncodeError
    ELSE NoText

(* ------------------ extractFirstFrame, called by itself ---------------- *)
\* The exported function under any caller: the call stays in extractions
\* once its promise is settled, with what it settled with.
LoadError == <<"Falha ao carregar o arquivo de video">>

IsSettled(e) == e.pc \in {"resolved", "rejected"}

\* resolve and reject: without effect on a promise that is settled
Resolve(e, frame) ==
    IF IsSettled(e) THEN e
    ELSE [file |-> e.file, pc |-> "resolved", timer |-> e.timer, url |-> e.url,
          attached |-> e.attached, frame |-> frame, error |-> NoText]

Reject(e, text) ==
    IF IsSettled(e) THEN e
    ELSE [file |-> e.file, pc |-> "rejected", timer |-> e.timer, url |-> e.url,
          attached |-> e.attached, frame |-> NoFrame, error |-> text]

\* lines 9-38 with createObjectURL throwing: the timer is armed, there is no
\* URL and no handler is attached when the catch of line 34 runs
ExtractionFailedToStart(f) ==
    Reject(cleanup([ExtractionStarted(f) EXCEPT !.url = FALSE, !.attached = FALSE]),
           LoadError)

\* a caller calls extractFirstFrame on a page that has made no call yet
extractFirstFrame(f, created) ==
    /\ mounted
    /\ uploads = 0
    /\ uploads' = 1
    /\ extractions' =
           Put(extractions, 1,
               IF created THEN ExtractionStarted(f) ELSE ExtractionFailedToStart(f))
    /\ UNCHANGED <<session, mounted, apiKey, alert, gens, generations, liveUrls>>

videoLoadeddata(i) ==
    /\ extractions[i].attached
    /\ extractions[i].pc = "loading"
    /\ extractions' = [extractions EXCEPT ![i].pc = "seeking"]
    /\ UNCHANGED <<session, mounted, apiKey, alert, uploads, gens, generations,
                   liveUrls>>

videoSeeked(i, canvas) ==
    LET e == extractions[i]
        thrown == SeekedError(e.file, canvas)
    IN  /\ e.attached
        /\ e.pc = "seeking"
        /\ extractions' =
               [extractions EXCEPT ![i] =
                   IF thrown = NoText THEN Resolve(cleanup(e), Frame(i, e.file))
                   ELSE Reject(cleanup(e), thrown)]
        /\ UNCHANGED <<session, mounted, apiKey, alert, uploads, gens, generations,
                       liveUrls>>

videoError(i) ==
    LET e == extractions[i]
    IN  /\ e.attached
        /\ e.pc \in {"loading", "seeking"}
        /\ extractions' = [extractions EXCEPT ![i] = Reject(cleanup(e), DecodeError)]
        /\ UNCHANGED <<session, mounted, apiKey, alert, uploads, gens, generations,
                       liveUrls>>

\* a timer callback that rejects without the cleanup of line 16
timerFiresNoCleanup(i) ==
    LET e == extractions[i]
    IN  /\ e.timer
        /\ extractions' =
               [extractions EXCEPT ![i] = Reject([e EXCEPT !.timer = FALSE], TimeoutError)]
        /\ UNCHANGED <<session, mounted, apiKey, alert, uploads, gens, generations,
                       liveUrls>>

\* lines 15-18: the 15 s timer fires
timerFires(i) ==
    LET e == extractions[i]
    IN  /\ e.timer
        /\ extractions' = [extractions EXCEPT ![i] = Reject(cleanup(e), TimeoutError)]
        /\ UNCHANGED <<session, mounted, apiKey, alert, uploads, gens, generations,
                       liveUrls>>

(* ----------------------------- App.tsx --------------------------------- *)
ExtractFailedText == <<"Falha ao processar o video">>

\* a rejected generateCleanVideo promise whose catch in handleProcess has
\* not run yet: it runs before any other event
Settling == \E i \in DOMAIN generations : generations[i].pc = "nokey"

\* an event handler can run: the page is up, no alert box blocks the event
\* loop and no continuation is due first
Interactive == mounted /\ alert = NoAlert /\ ~Settling

\* line 41 onwards, with extractFirstFrame resolved
FrameReady(frame) ==
    /\ extractedFrame' = frame
    /\ processingState' = State("idle")
    /\ UNCHANGED <<videoFile, videoPreviewUrl, prompt, generatedVideoUrl>>

\* line 44 onwards, with extractFirstFrame rejected
FrameFailed ==
    /\ processingState' = ErrorState(ExtractFailedText)
    /\ UNCHANGED <<videoFile, videoPreviewUrl, prompt, generatedVideoUrl,
                   extractedFrame>>

\* handleFileChange without the type check of line 29
handleFileChangeAnyType(f) ==
    /\ Interactive
    /\ videoFile = NoFile
    /\ f # NoFile
    /\ uploads < MaxUploads
    /\ uploads' = uploads + 1
    /\ videoFile' = f
    /\ videoPreviewUrl' = [kind |-> "preview", id |-> uploads']
    /\ liveUrls' = liveUrls \cup {videoPreviewUrl'}
    /\ generatedVideoUrl' = NoUrl
    /\ processingState' = State("analyzing")
    /\ extractions' = Put(extractions, uploads', ExtractionStarted(f))
    /\ UNCHANGED <<prompt, extractedFrame, alert, mounted, apiKey, gens,
                   generations>>

handleFileChange(f) ==
    /\ Interactive
    /\ videoFile = NoFile
    /\ IF f = NoFile
       THEN UNCHANGED <<session, uploads, extractions, liveUrls, alert>>
       ELSE IF FileType(f) # "video/mp4"
       THEN /\ alert' = Mp4Alert
            /\ UNCHANGED <<session, uploads, extractions, liveUrls>>
       ELSE /\ uploads < MaxUploads
            /\ uploads' = uploads + 1
            /\ videoFile' = f
            /\ videoPreviewUrl' = [kind |-> "preview", id |-> uploads']
            /\ liveUrls' = liveUrls \cup {videoPreviewUrl'}
            /\ generatedVideoUrl' = NoUrl
            /\ processingState' = State("analyzing")
            /\ extractions' = Put(extractions, uploads', ExtractionStarted(f))
            /\ UNCHANGED <<prompt, extractedFrame, alert>>
    /\ UNCHANGED <<mounted, apiKey, gens, generations>>

setPrompt(p) ==
    /\ Interactive
    /\ videoFile # NoFile
    /\ prompt' = p
    /\ UNCHANGED <<videoFile, videoPreviewUrl, processingState, generatedVideoUrl,
                   extractedFrame, mounted, apiKey, alert, uploads, gens, extractions,
                   generations, liveUrls>>

\* handleReset without line 86
handleResetKeepsPrompt ==
    /\ Interactive
    /\ videoFile # NoFile \/ generatedVideoUrl # NoUrl
    /\ videoFile' = NoFile
    /\ videoPreviewUrl' = NoUrl
    /\ generatedVideoUrl' = NoUrl
    /\ extractedFrame' = NoFrame
    /\ processingState' = State("idle")
    /\ UNCHANGED <<prompt, mounted, apiKey, alert, uploads, gens, extractions,
                   generations, liveUrls>>

handleReset ==
    /\ Interactive
    /\ videoFile # NoFile \/ generatedVideoUrl # NoUrl
    /\ videoFile' = NoFile
    /\ videoPreviewUrl' = NoUrl
    /\ generatedVideoUrl' = NoUrl
    /\ extractedFrame' = NoFrame
    /\ prompt' = <<>>
    /\ processingState' = State("idle")
    /\ UNCHANGED <<mounted, apiKey, alert, uploads, gens, extractions, generations,
                   liveUrls>>

\* the user closes the alert box; the handler that opened it returns
dismiss ==
    /\ mounted
    /\ alert # NoAlert
    /\ alert' = NoAlert
    /\ UNCHANGED <<session, mounted, apiKey, uploads, gens, extractions,
                   generations, liveUrls>>

(* ----------------------- media events and timer ------------------------ *)
onloadeddata(i) ==
    /\ Interactive
    /\ extractions[i].attached
    /\ extractions[i].pc = "loading"
    /\ extractions' = [extractions EXCEPT ![i].pc = "seeking"]
    /\ UNCHANGED <<session, mounted, apiKey, alert, uploads, gens, generations, liveUrls>>

onseeked(i, canvas) ==
    LET e == extractions[i]
        error == SeekedError(e.file, canvas)
    IN  /\ Interactive
        /\ e.attached
        /\ e.pc = "seeking"
        /\ IF error = NoText
           THEN /\ extractions' = Settle(i, cleanup(e))
                /\ FrameReady(Frame(i, e.file))
           ELSE /\ extractions' = Settle(i, cleanup(e))
                /\ FrameFailed
        /\ UNCHANGED <<mounted, apiKey, alert, uploads, gens, generations, liveUrls>>

onerror(i) ==
    LET e == extractions[i]
    IN  /\ Interactive
        /\ e.attached
        /\ e.pc \in {"loading", "seeking"}
        /\ extractions' = Settle(i, cleanup(e))
        /\ FrameFailed
        /\ UNCHANGED <<mounted, apiKey, alert, uploads, gens, generations, liveUrls>>

timeout(i) ==
    LET e == extractions[i]
    IN  /\ Interactive
        /\ e.timer
        /\ extractions' = Settle(i, cleanup(e))
        /\ FrameFailed
        /\ UNCHANGED <<mounted, apiKey, alert, uploads, gens, generations, liveUrls>>

(* ------------------------- generateCleanVideo -------------------------- *)
NoKeyError == <<"Chave de API nao detectada">>

NoIdError == <<"ID de operacao invalido">>

LostError == <<"operacao perdida pelo servidor", "404">>

NotFoundText == <<"modelo ou operacao nao encontrada">>

QuotaText == <<"Limite de requisicoes excedido (Quota)">>

UnknownText == <<"Erro desconhecido">>

NoUriText == <<"Nenhum URI de video retornado">>

GenerationError(text) == <<"Falha na geracao:">> \o text

DownloadError(status) == <<"Falha ao baixar video gerado:", status>>

DefaultErrorText == <<"Ocorreu um erro durante a geracao">>

\* the messages of the errors a network call can raise (<<>>: no message)
ErrorTexts ==
    {<<>>, <<"Failed to fetch">>, <<"404", "entity">>, <<"429">>,
     <<"404", "entity", "429">>}

\* operation.name: none, the one the submission answers with, and another
\* one a refreshed snapshot may carry
NoName == ""

Names == {"operations/1", "operations/2"}

\* what a snapshot says of the operation: running, done with a video, done
\* without one, done without one and with an error message (one that does
\* not and one that does include a text the catch of line 88 looks for)
Outcomes ==
    {[done |-> FALSE, uri |-> FALSE, failure |-> NoText],
     [done |-> TRUE, uri |-> TRUE, failure |-> NoText],
     [done |-> TRUE, uri |-> FALSE, failure |-> NoText],
     [done |-> TRUE, uri |-> FALSE, failure |-> <<"blocked">>],
     [done |-> TRUE, uri |-> FALSE, failure |-> <<"refused", "429">>]}

Snapshot(name, outcome) ==
    [name |-> name, done |-> outcome.done, uri |-> outcome.uri,
     failure |-> outcome.failure]

\* the operation snapshots a poll call can return
Snapshots == {Snapshot(name, outcome) : name \in Names, outcome \in Outcomes}

\* what the submission returns: a snapshot, with or without an identifier
Submitted ==
    {Snapshot("operations/1", outcome) : outcome \in Outcomes}
        \cup {Snapshot(NoName, outcome) : outcome \in {o \in Outcomes : ~o.done}}

\* the transport statuses of the download response
Statuses == {"200", "404", "429"}

\* a catch that looks for the quota code before the not-found pattern
TranslateQuotaFirst(text) ==
    LET userMessage == IF text = NoText THEN UnknownText ELSE text
    IN  IF Includes(userMessage, "429") THEN QuotaText
        ELSE IF Includes(userMessage, "404") /\ Includes(userMessage, "entity")
        THEN NotFoundText
        ELSE userMessage

\* the catch of generateCleanVideo, lines 88-100
Translate(text) ==
    LET userMessage == IF text = NoText THEN UnknownText ELSE text
    IN  IF Includes(userMessage, "404") /\ Includes(userMessage, "entity")
        THEN NotFoundText
        ELSE IF Includes(userMessage, "429") THEN QuotaText ELSE userMessage

\* what the catch of the poll call throws, lines 54-66
PollThrows(text) ==
    IF text # NoText /\ Includes(text, "404") THEN LostError ELSE text

\* generateCleanVideo without the check of lines 11-13
GenerationStartedUnchecked(frame, description, ratio) ==
    [upload |-> frame.upload, ratio |-> ratio, prompt |-> description,
     pc |-> "submitting", submits |-> 1, polls |-> 0, fetches |-> 0,
     operationName |-> NoName, operation |-> NoName, request |-> NoName]

\* lines 10-34: the call up to its first await.  submits, polls and fetches
\* count the network calls issued; operationName is the constant of line 38,
\* operation the name in the snapshot the variable of line 22 holds, and
\* request the name sent with the poll call that is under way.
GenerationStarted(frame, description, ratio) ==
    [upload |-> frame.upload, ratio |-> ratio, prompt |-> description,
     pc |-> IF apiKey THEN "submitting" ELSE "nokey",
     submits |-> IF apiKey THEN 1 ELSE 0,
     polls |-> 0, fetches |-> 0,
     operationName |-> NoName, operation |-> NoName, request |-> NoName]

\* line 62
Ratio(frame) == IF frame.width >= frame.height THEN "16:9" ELSE "9:16"

\* the submit button's disabled prop, line 192
disabled == processingState.status # "idle" \/ Trim(prompt) = <<>>

\* lines 73-78, with the error generateCleanVideo rejected with
GenerationRejected(text) ==
    /\ processingState' =
           ErrorState(IF text = NoText THEN DefaultErrorText ELSE text)
    /\ UNCHANGED <<videoFile, videoPreviewUrl, prompt, generatedVideoUrl,
                   extractedFrame>>

\* lines 71-72, with the URL generateCleanVideo resolved with
GenerationResolved(url) ==
    /\ generatedVideoUrl' = url
    /\ processingState' = State("completed")
    /\ UNCHANGED <<videoFile, videoPreviewUrl, prompt, extractedFrame>>

\* an error thrown inside the try block: translated, rethrown, caught by App
Throw(i, g, text) ==
    /\ generations' = Drop(generations, i)
    /\ GenerationRejected(Translate(text))
    /\ UNCHANGED liveUrls

\* lines 69-79: the operation is done
OperationDone(i, g, snap) ==
    IF snap.uri
    THEN /\ generations' =
                [generations EXCEPT ![i] =
                    [g EXCEPT !.pc = "downloading", !.operation = snap.name,
                              !.request = NoName, !.fetches = g.fetches + 1]]
         /\ UNCHANGED <<session, liveUrls>>
    ELSE Throw(i, g, GenerationError(IF snap.failure = NoText THEN NoUriText
                                     ELSE snap.failure))

\* a loop that is left on the first snapshot, done or not
LoopNeverWaits(i, g, snap) == OperationDone(i, g, snap)

\* line 47: the loop test on a snapshot
Loop(i, g, snap) ==
    IF snap.done
    THEN OperationDone(i, g, snap)
    ELSE /\ generations' =
                [generations EXCEPT ![i] =
                    [g EXCEPT !.pc = "waiting", !.operation = snap.name,
                              !.request = NoName]]
         /\ UNCHANGED <<session, liveUrls>>

\* handleProcess without the check of lines 53-56
handleProcessAnyPrompt ==
    /\ Interactive
    /\ videoFile # NoFile
    /\ extractedFrame # NoFrame
    /\ gens < MaxGens
    /\ gens' = gens + 1
    /\ processingState' = State("generating")
    /\ generations' =
           Put(generations, gens',
               GenerationStarted(extractedFrame, prompt, Ratio(extractedFrame)))
    /\ UNCHANGED <<videoFile, videoPreviewUrl, prompt, generatedVideoUrl,
                   extractedFrame, alert, mounted, apiKey, uploads, extractions,
                   liveUrls>>

handleProcess ==
    /\ Interactive
    /\ videoFile # NoFile
    /\ IF extractedFrame = NoFrame
       THEN UNCHANGED <<session, gens, generations, alert>>
       ELSE IF Trim(prompt) = <<>>
       THEN /\ alert' = DescribeAlert
            /\ UNCHANGED <<session, gens, generations>>
       ELSE /\ gens < MaxGens
            /\ gens' = gens + 1
            /\ processingState' = State("generating")
            /\ generations' =
                   Put(generations, gens',
                       GenerationStarted(extractedFrame, prompt,
                                         Ratio(extractedFrame)))
            /\ UNCHANGED <<videoFile, videoPreviewUrl, prompt, generatedVideoUrl,
                           extractedFrame, alert>>
    /\ UNCHANGED <<mounted, apiKey, uploads, extractions, liveUrls>>

\* a click on the submit button reaches handleProcess unless it is disabled
ButtonClick == ~disabled /\ handleProcess

\* the catch of handleProcess for a call that threw before its try block
missingKey(i) ==
    LET g == generations[i]
    IN  /\ mounted
        /\ g.pc = "nokey"
        /\ generations' = Drop(generations, i)
        /\ GenerationRejected(NoKeyError)
        /\ UNCHANGED <<mounted, apiKey, alert, uploads, gens, extractions, liveUrls>>

generateVideosThrows(i, text) ==
    LET g == generations[i]
    IN  /\ Interactive
        /\ g.pc = "submitting"
        /\ Throw(i, g, text)
        /\ UNCHANGED <<mounted, apiKey, alert, uploads, gens, extractions>>

generateVideosReturns(i, operation) ==
    LET g == generations[i]
    IN  /\ Interactive
        /\ g.pc = "submitting"
        /\ IF operation.name # NoName
           THEN Loop(i, [g EXCEPT !.operationName = operation.name], operation)
           ELSE Throw(i, g, NoIdError)
        /\ UNCHANGED <<mounted, apiKey, alert, uploads, gens, extractions>>

\* the poll call names the operation by the object the loop variable holds
PollRequestOfOperation(g) == g.operation

\* line 53: the argument of the poll call
PollRequest(g) == g.operationName

\* line 48 elapsed, line 53 issued
poll(i) ==
    LET g == generations[i]
    IN  /\ Interactive
        /\ g.pc = "waiting"
        /\ g.polls < MaxPolls
        /\ generations' =
               [generations EXCEPT ![i] =
                   [g EXCEPT !.pc = "polling", !.polls = g.polls + 1,
                             !.request = PollRequest(g)]]
        /\ UNCHANGED <<session, mounted, apiKey, alert, uploads, gens, extractions,
                       liveUrls>>

\* a poll loop that swallows the error of line 54 and polls again
getVideosOperationRetries(i, text) ==
    LET g == generations[i]
    IN  /\ Interactive
        /\ g.pc = "polling"
        /\ generations' = [generations EXCEPT ![i] = [g EXCEPT !.pc = "waiting"]]
        /\ UNCHANGED <<session, liveUrls, mounted, apiKey, alert, uploads, gens,
                       extractions>>

getVideosOperationThrows(i, text) ==
    LET g == generations[i]
    IN  /\ Interactive
        /\ g.pc = "polling"
        /\ Throw(i, g, PollThrows(text))
        /\ UNCHANGED <<mounted, apiKey, alert, uploads, gens, extractions>>

getVideosOperationReturns(i, snap) ==
    LET g == generations[i]
    IN  /\ Interactive
        /\ g.pc = "polling"
        /\ Loop(i, g, snap)
        /\ UNCHANGED <<mounted, apiKey, alert, uploads, gens, extractions>>

fetchReturns(i, status) ==
    LET g == generations[i]
    IN  /\ Interactive
        /\ g.pc = "downloading"
        /\ IF status = "200"
           THEN /\ generations' = [generations EXCEPT ![i] = [g EXCEPT !.pc = "blob"]]
                /\ UNCHANGED <<session, liveUrls>>
           ELSE Throw(i, g, DownloadError(status))
        /\ UNCHANGED <<mounted, apiKey, alert, uploads, gens, extractions>>

fetchThrows(i) ==
    LET g == generations[i]
    IN  /\ Interactive
        /\ g.pc \in {"downloading", "blob"}
        /\ Throw(i, g, <<"Failed to fetch">>)
        /\ UNCHANGED <<mounted, apiKey, alert, uploads, gens, extractions>>

\* lines 85-86, then lines 71-72 of App
blobReturns(i) ==
    LET g == generations[i]
        url == [kind |-> "generated", id |-> i]
    IN  /\ Interactive
        /\ g.pc = "blob"
        /\ generations' = Drop(generations, i)
        /\ liveUrls' = liveUrls \cup {url}
        /\ GenerationResolved(url)
        /\ UNCHANGED <<mounted, apiKey, alert, uploads, gens, extractions>>

(* ------------------------------ teardown ------------------------------- *)
\* The effect of line 17 has no dependencies: its cleanup closes over the
\* state of the first render.
CleanupPreviewUrl == NoUrl

CleanupGeneratedUrl == NoUrl

\* The root component goes away and the page with it: the component's state
\* and the calls in flight are discarded; what stays is the object URLs the
\* cleanup did not revoke.
unmount ==
    /\ Interactive
    /\ mounted' = FALSE
    /\ liveUrls' = liveUrls \ {CleanupPreviewUrl, CleanupGeneratedUrl}
    /\ videoFile' = NoFile
    /\ videoPreviewUrl' = NoUrl
    /\ prompt' = <<>>
    /\ processingState' = State("idle")
    /\ generatedVideoUrl' = NoUrl
    /\ extractedFrame' = NoFrame
    /\ extractions' = NoCalls
    /\ generations' = NoCalls
    /\ UNCHANGED <<apiKey, alert, uploads, gens>>

(* --------------------------- specifications ---------------------------- *)
Uploads == DOMAIN extractions

Gens == DOMAIN generations

Completions ==
    \/ \E i \in Uploads : onloadeddata(i)
    \/ \E i \in Uploads : \E canvas \in Canvases : onseeked(i, canvas)
    \/ \E i \in Uploads : onerror(i)
    \/ \E i \in Uploads : timeout(i)
    \/ \E i \in Gens : missingKey(i)
    \/ \E i \in Gens : \E text \in ErrorTexts : generateVideosThrows(i, text)
    \/ \E i \in Gens : \E operation \in Submitted : generateVideosReturns(i, operation)
    \/ \E i \in Gens : poll(i)
    \/ \E i \in Gens : \E text \in ErrorTexts : getVideosOperationThrows(i, text)
    \/ \E i \in Gens : \E snap \in Snapshots : getVideosOperationReturns(i, snap)
    \/ \E i \in Gens : \E status \in Statuses : fetchReturns(i, status)
    \/ \E i \in Gens : fetchThrows(i)
    \/ \E i \in Gens : blobReturns(i)

UserEvents ==
    \/ \E f \in Files \cup {NoFile} : handleFileChange(f)
    \/ \E p \in Prompts : setPrompt(p)
    \/ dismiss
    \/ handleReset
    \/ unmount

\* the application as the user drives it
Next == UserEvents \/ ButtonClick \/ Completions

Spec == Init /\ [][Next]_vars

\* the handlers as such: handleProcess runs on every click on the rendered
\* button, whatever its disabled prop
NextDirect == UserEvents \/ handleProcess \/ Completions

SpecDirect == Init /\ [][NextDirect]_vars

\* extractFirstFrame under any caller, for MP4 files of every size in Videos
NextExtractor ==
    \/ \E f \in Videos : \E created \in BOOLEAN : extractFirstFrame(f, created)
    \/ \E i \in Uploads : videoLoadeddata(i)
    \/ \E i \in Uploads : \E canvas \in Canvases : videoSeeked(i, canvas)
    \/ \E i \in Uploads : videoError(i)
    \/ \E i \in Uploads : timerFires(i)

SpecExtractor == Init /\ [][NextExtractor]_vars

\* one session without reset, for MP4 files of every size in Videos
NextFrames ==
    \/ \E f \in Videos : handleFileChange(f)
    \/ \E p \in Prompts : setPrompt(p)
    \/ ButtonClick
    \/ Completions

SpecFrames == Init /\ [][NextFrames]_vars

\* What the event loop owes the code: a timer that was set fires (line 48)
\* and the continuation of a settled promise runs (the catch of line 73),
\* as long as the page is up and no alert box blocks the loop.
Fairness ==
    \A i \in 1 .. MaxGens :
        /\ WF_vars(i \in DOMAIN generations /\ poll(i))
        /\ WF_vars(i \in DOMAIN generations /\ missingKey(i))

SpecLive == Spec /\ Fairness

(* ------------------------------- claims -------------------------------- *)
status == processingState.status

\* the generateCleanVideo calls whose promise is not settled
Unsettled == {i \in DOMAIN generations : generations[i].pc # "nokey"}

\* the status changes section 4.3 of the specification allows without a reset
Transitions ==
    {<<"idle", "analyzing">>, <<"analyzing", "idle">>, <<"analyzing", "error">>,
     <<"idle", "generating">>, <<"generating", "completed">>,
     <<"generating", "error">>}

\* the poll calls generateCleanVideo call i has issued in its loop
PollsIssued(i) == IF i \in DOMAIN generations THEN generations[i].polls ELSE 0

(* C1: at most one generateCleanVideo call is unsettled at any time, and no
   extractFirstFrame call is unsettled while a generateCleanVideo call is. *)
C1_OneOperationInFlight ==
    /\ Cardinality(Unsettled) <= 1
    /\ Unsettled # {} => DOMAIN extractions = {}

(* C2: handleReset, from whatever state it runs in, leaves status idle, no
   extracted frame, no generated video, no selected file and an empty
   description. *)
C2_ResetClearsSession ==
    [][handleReset =>
          /\ processingState' = State("idle")
          /\ extractedFrame' = NoFrame
          /\ generatedVideoUrl' = NoUrl
          /\ videoFile' = NoFile
          /\ prompt' = <<>>]_vars

\* a reset taken while a generation was running: the call is still unsettled
C2_Witness ==
    /\ mounted
    /\ videoFile = NoFile
    /\ status = "idle"
    /\ prompt = <<>>
    /\ \E i \in DOMAIN generations : generations[i].pc = "polling"

(* C3: the status changes only along idle -> analyzing, analyzing -> idle,
   analyzing -> error, idle -> generating, generating -> completed,
   generating -> error, and from any status to idle by handleReset. *)
C3_StateMachine ==
    [][(mounted' /\ status' # status) =>
          \/ <<status, status'>> \in Transitions
          \/ handleReset]_vars

(* C4: once a file has been accepted, the frame the session holds, if any,
   was extracted from that file's upload, and a generation started then
   carries the frame of that upload. *)
C4_NewUploadDiscardsOld ==
    /\ (videoFile # NoFile /\ extractedFrame # NoFrame) =>
           extractedFrame.upload = uploads
    /\ \A i \in DOMAIN generations :
           (videoFile # NoFile /\ status = "generating") =>
               generations[i].upload = uploads

(* C5: from status error only handleReset changes the status, and until it
   runs no extraction, submission or poll is started. *)
C5_ErrorIsTerminal ==
    [][(status = "error" /\ mounted') =>
          \/ handleReset
          \/ /\ status' = "error"
             /\ uploads' = uploads
             /\ gens' = gens
             /\ \A i \in DOMAIN generations' :
                    generations'[i].polls <= PollsIssued(i)]_vars

(* C6: every object URL App or the generation client created and did not
   revoke is still referenced by the session; none is left after a reset or
   after teardown. *)
C6_HandlesReleased ==
    /\ liveUrls \subseteq {videoPreviewUrl, generatedVideoUrl}
    /\ ~mounted => liveUrls = {}

(* C7: selecting a file whose type is not video/mp4 changes nothing of the
   session, creates no object URL and starts no extraction. *)
C7_WrongTypeRejected ==
    [][\A f \in Files :
          (FileType(f) # "video/mp4" /\ handleFileChange(f)) =>
              UNCHANGED <<session, uploads, extractions, liveUrls>>]_vars

C7_Witness == alert = Mp4Alert /\ videoFile = NoFile /\ uploads = 1

(* C8: handleProcess with no extracted frame or a blank description leaves
   the session unchanged and submits nothing; status generating is entered
   only with a frame and a description that is not blank. *)
C8_GenerateNeedsFrameAndText ==
    /\ [][handleProcess =>
             IF extractedFrame = NoFrame \/ Trim(prompt) = <<>>
             THEN UNCHANGED <<session, gens, generations>>
             ELSE status' = "generating" /\ gens' = gens + 1]_vars
    /\ [][(status' = "generating" /\ status # "generating") =>
             extractedFrame # NoFrame /\ Trim(prompt) # <<>>]_vars

\* the handler turned a blank description down with a frame at hand
C8_Witness ==
    /\ alert = DescribeAlert
    /\ extractedFrame # NoFrame
    /\ prompt = <<" ">>
    /\ generations = NoCalls

(* C9: without an API key a generateCleanVideo call issues no submission,
   poll or download, and it ends with status error and the missing-key
   message; extraction works all the same. *)
C9_MissingKeyFailsFirst ==
    /\ [](~apiKey =>
             /\ \A i \in DOMAIN generations :
                    /\ generations[i].pc = "nokey"
                    /\ generations[i].submits = 0
                    /\ generations[i].polls = 0
                    /\ generations[i].fetches = 0
             /\ generatedVideoUrl = NoUrl
             /\ status # "completed")
    /\ [][(~apiKey /\ gens' # gens) => Settling']_vars
    /\ [][(Settling /\ mounted') =>
             processingState' = ErrorState(NoKeyError) /\ ~Settling']_vars

C9_Witness ==
    /\ ~apiKey
    /\ gens = 1
    /\ extractedFrame # NoFrame
    /\ processingState = ErrorState(NoKeyError)

(* C10: a poll call that raises an error settles the generation at once, so
   that it issues no further poll and no download; a 404 error gives status
   error with the operation-lost message, any other error is passed on to
   the error translation. *)
C10_PollErrorEndsLoop ==
    /\ [][\A i \in DOMAIN generations : \A text \in ErrorTexts :
             getVideosOperationThrows(i, text) =>
                 /\ i \notin DOMAIN generations'
                 /\ processingState' =
                        ErrorState(IF Includes(text, "404") THEN LostError
                                   ELSE Translate(text))]_vars
    /\ [][\A i \in 1..gens : i \notin DOMAIN generations =>
             i \notin DOMAIN generations']_vars

C10_Witness == mounted /\ gens >= 1 /\ processingState = ErrorState(LostError)

(* C11: every poll call of a generation names the operation by the
   identifier captured from that generation's submission response, the same
   at every poll whatever name a refreshed snapshot carries; a submission
   response without an identifier fails the generation before any poll. *)
C11_PollsByCapturedName ==
    /\ [](\A i \in DOMAIN generations :
             LET g == generations[i]
             IN  /\ g.pc = "polling" =>
                        g.request = g.operationName /\ g.request = "operations/1"
                 /\ g.polls > 0 => g.operationName # NoName)
    /\ [][\A i \in DOMAIN generations : \A operation \in Submitted :
             generateVideosReturns(i, operation) =>
                 IF operation.name = NoName
                 THEN /\ i \notin DOMAIN generations'
                      /\ processingState' = ErrorState(NoIdError)
                 ELSE i \in DOMAIN generations' =>
                          generations'[i].operationName = operation.name]_vars
    /\ [][\A i \in DOMAIN generations \cap DOMAIN generations' :
             generations[i].pc # "submitting" =>
                 generations'[i].operationName = generations[i].operationName]_vars

\* a second poll is under way after a snapshot that carried another name
C11_Witness ==
    \E i \in DOMAIN generations :
        /\ generations[i].pc = "polling"
        /\ generations[i].polls = 2
        /\ generations[i].operation = "operations/2"
        /\ generations[i].request = "operations/1"

\* the poll loop of call i is waiting for its timer
Waiting(i) ==
    /\ i \in DOMAIN generations
    /\ generations[i].pc = "waiting"
    /\ generations[i].polls < MaxPolls

(* C12: a generation submits once; every snapshot that says not done leads
   to one wait and then one poll, the first snapshot that says done ends the
   polling (a done submission response causes no poll), a done snapshot with
   a video is followed by the one download fetch, and a successful download
   ends with status completed and a generated object URL. *)
C12_PollUntilDone ==
    /\ [](\A i \in DOMAIN generations :
             LET g == generations[i]
             IN  g.pc # "nokey" =>
                     /\ g.submits = 1
                     /\ g.fetches = IF g.pc \in {"downloading", "blob"} THEN 1 ELSE 0
                     /\ g.pc = "submitting" => g.polls = 0)
    /\ [][\A i \in DOMAIN generations : \A snap \in Snapshots \cup Submitted :
             (/\ snap.name # NoName
              /\ \/ generateVideosReturns(i, snap)
                 \/ getVideosOperationReturns(i, snap)) =>
                 IF ~snap.done
                 THEN /\ i \in DOMAIN generations'
                      /\ generations'[i].pc = "waiting"
                      /\ generations'[i].polls = generations[i].polls
                 ELSE IF snap.uri
                 THEN /\ i \in DOMAIN generations'
                      /\ generations'[i].pc = "downloading"
                      /\ generations'[i].polls = generations[i].polls
                 ELSE i \notin DOMAIN generations']_vars
    /\ [][\A i \in DOMAIN generations \cap DOMAIN generations' :
             /\ generations'[i].polls # generations[i].polls =>
                    /\ generations[i].pc = "waiting"
                    /\ generations'[i].pc = "polling"
                    /\ generations'[i].polls = generations[i].polls + 1
             /\ (generations[i].pc = "waiting" /\ generations'[i].pc # "waiting") =>
                    generations'[i].polls = generations[i].polls + 1]_vars
    /\ [][\A i \in DOMAIN generations :
             /\ fetchReturns(i, "200") => generations'[i].pc = "blob"
             /\ blobReturns(i) =>
                    /\ i \notin DOMAIN generations'
                    /\ status' = "completed"
                    /\ generatedVideoUrl' # NoUrl
                    /\ generatedVideoUrl' \in liveUrls']_vars
    /\ \A i \in 1 .. MaxGens :
           Waiting(i) ~> (~Waiting(i) \/ alert # NoAlert)

\* two snapshots said not done, the second poll said done with a video and
\* the download answered 200
C12_Witness ==
    \E i \in DOMAIN generations :
        /\ generations[i].pc = "blob"
        /\ generations[i].polls = 2
        /\ generations[i].submits = 1
        /\ generations[i].fetches = 1

(* C13: a download response with a status other than 200 settles the
   generation with status error and an error text that includes that
   status; no object URL is created and none is stored. *)
C13_DownloadErrorHasStatus ==
    [][\A i \in DOMAIN generations : \A code \in Statuses \ {"200"} :
          fetchReturns(i, code) =>
              /\ i \notin DOMAIN generations'
              /\ status' = "error"
              /\ Includes(processingState'.error, code)
              /\ liveUrls' = liveUrls
              /\ generatedVideoUrl' = generatedVideoUrl]_vars

\* the three categories of the specification's error translation
Category(text) ==
    IF Includes(text, "404") /\ Includes(text, "entity") THEN NotFoundText
    ELSE IF Includes(text, "429") THEN QuotaText
    ELSE IF text = NoText THEN UnknownText
    ELSE text

\* generateCleanVideo call i settles with an error whose text is as Category
\* gives it for the error raised
Rejects(i, raised) ==
    /\ i \notin DOMAIN generations'
    /\ processingState' = ErrorState(Category(raised))

(* C14: whatever is raised after the credential check - by the submission,
   by a missing identifier, by a poll, by a done operation without a video,
   by the download - the generation settles with the not-found message when
   the raised text includes 404 and entity, else with the quota message
   when it includes 429, else with the raised text itself (a default text
   when it is empty). *)
C14_ErrorTranslation ==
    [][\A i \in DOMAIN generations :
          /\ \A text \in ErrorTexts :
                 /\ generateVideosThrows(i, text) => Rejects(i, text)
                 /\ getVideosOperationThrows(i, text) =>
                        Rejects(i, IF Includes(text, "404") THEN LostError ELSE text)
          /\ \A snap \in Snapshots \cup Submitted :
                 (generateVideosReturns(i, snap) \/ getVideosOperationReturns(i, snap)) =>
                     IF generations[i].pc = "submitting" /\ snap.name = NoName
                     THEN Rejects(i, NoIdError)
                     ELSE (snap.done /\ ~snap.uri) =>
                              Rejects(i, GenerationError(IF snap.failure = NoText
                                                         THEN NoUriText
                                                         ELSE snap.failure))
          /\ \A code \in Statuses \ {"200"} :
                 fetchReturns(i, code) => Rejects(i, DownloadError(code))
          /\ fetchThrows(i) => Rejects(i, <<"Failed to fetch">>)]_vars

\* a generation has ended with the not-found message
C14_Witness ==
    /\ mounted
    /\ gens >= 1
    /\ processingState = ErrorState(NotFoundText)

\* the text has every part of the other text
Incorporates(text, part) == \A k \in 1 .. Len(part) : Includes(text, part[k])

(* C15: a snapshot that says done and has no video locator settles the
   generation with status error and the no-result error, which includes the
   failure message of the snapshot when there is one; no download fetch has
   been issued and no object URL is created or stored. *)
C15_NoLocatorFails ==
    [][\A i \in DOMAIN generations : \A snap \in Snapshots \cup Submitted :
          (/\ snap.name # NoName
           /\ snap.done /\ ~snap.uri
           /\ \/ generateVideosReturns(i, snap)
              \/ getVideosOperationReturns(i, snap)) =>
              /\ i \notin DOMAIN generations'
              /\ generations[i].fetches = 0
              /\ status' = "error"
              /\ Incorporates(processingState'.error, <<"Falha na geracao:">>)
              /\ Incorporates(processingState'.error,
                              IF snap.failure = NoText THEN NoUriText
                              ELSE snap.failure)
              /\ liveUrls' = liveUrls
              /\ generatedVideoUrl' = generatedVideoUrl]_vars

(* C16: when the 15 s timer of an extraction fires - no seek completion and
   no decode error has settled the call before - the call is rejected with
   the timeout error, its object URL is revoked and its handlers are
   detached. *)
C16_TimeoutRejects ==
    /\ [][\A i \in DOMAIN extractions :
             timerFires(i) =>
                 /\ ~IsSettled(extractions[i])
                 /\ extractions'[i].pc = "rejected"
                 /\ extractions'[i].error = TimeoutError
                 /\ ~extractions'[i].url
                 /\ ~extractions'[i].attached]_vars
    /\ [](\A i \in DOMAIN extractions :
             (IsSettled(extractions[i]) /\ extractions[i].error = TimeoutError) =>
                 ~extractions[i].url /\ ~extractions[i].attached)

\* the timer fired on a call that was seeking
C16_Witness ==
    \E i \in DOMAIN extractions :
        /\ extractions[i].pc = "rejected"
        /\ extractions[i].error = TimeoutError
        /\ extractions[i].file = Mp4(4000, 2000)

(* C17: whenever the promise of extractFirstFrame is settled - resolved, or
   rejected for a failed createObjectURL, invalid dimensions, a missing
   canvas context, an encode exception, a decode error or the timeout - the
   timer is cleared, the object URL is revoked and the handlers are
   detached. *)
C17_CleanupOnEveryExit ==
    \A i \in DOMAIN extractions :
        LET e == extractions[i]
        IN  /\ IsSettled(e) => ~e.timer /\ ~e.url /\ ~e.attached
            /\ e.pc = "rejected" =>
                   e.error \in {LoadError, DimensionsError, ContextError,
                                EncodeError, DecodeError, TimeoutError}

\* the encoder threw after the frame was drawn
C17_Witness ==
    \E i \in DOMAIN extractions :
        /\ extractions[i].pc = "rejected"
        /\ extractions[i].error = EncodeError
        /\ ~extractions[i].url

(* C18: a frame extracted from a video with both native dimensions non-zero
   has width and height at most 1024; when a native dimension exceeds 1024
   the longer side of the frame is 1024 and the other side is the floor of
   the native one scaled by 1024 over the longer native side. *)
C18_FrameWithinLimit ==
    \A i \in DOMAIN extractions :
        extractions[i].pc = "resolved" =>
            LET w == videoWidth(extractions[i].file)
                h == videoHeight(extractions[i].file)
                frame == extractions[i].frame
            IN  /\ frame.width <= 1024
                /\ frame.height <= 1024
                /\ (w > 1024 \/ h > 1024) =>
                       IF w >= h
                       THEN /\ frame.width = 1024
                            /\ frame.height = (h * 1024) \div w
                       ELSE /\ frame.height = 1024
                            /\ frame.width = (w * 1024) \div h

(* C19: a frame extracted from a video whose longer native side is at most
   1024 has the native width and height. *)
C19_NoDownscale ==
    \A i \in DOMAIN extractions :
        extractions[i].pc = "resolved" =>
            LET w == videoWidth(extractions[i].file)
                h == videoHeight(extractions[i].file)
                frame == extractions[i].frame
            IN  (w <= 1024 /\ h <= 1024) => frame.width = w /\ frame.height = h

\* a frame of a video that is exactly at the limit
C19_Witness ==
    \E i \in DOMAIN extractions :
        /\ extractions[i].pc = "resolved"
        /\ extractions[i].file = Mp4(1024, 600)
        /\ extractions[i].frame.width = 1024
        /\ extractions[i].frame.height = 600

(* C20: the aspect ratio a generation is submitted with is 16:9 exactly when
   the extracted frame is at least as wide as high, and 9:16 otherwise, and
   it is the class of the native size of the video the frame was taken
   from. *)
C20_RatioOfFrameAndVideo ==
    [][gens' # gens =>
          LET ratio == generations'[gens'].ratio
              wide == "16:9"
              tall == "9:16"
          IN  /\ ratio = IF extractedFrame.width >= extractedFrame.height
                         THEN wide ELSE tall
              /\ ratio = IF videoWidth(extractedFrame.file) >=
                                videoHeight(extractedFrame.file)
                         THEN wide ELSE tall]_vars

(* C21: once handleReset has run, the calls it left in flight change nothing
   that is visible: while no file is held, no step but a reset changes the
   status, the extracted frame or the generated video URL, and neither does
   the completion of an extraction older than the latest upload. *)
C21_AbandonedWorkStaysInvisible ==
    /\ [][(videoFile = NoFile /\ videoFile' = NoFile /\ mounted') =>
             \/ handleReset
             \/ UNCHANGED <<processingState, extractedFrame, generatedVideoUrl>>]_vars
    /\ [][\A i \in DOMAIN extractions :
             (i < uploads /\ i \notin DOMAIN extractions' /\ mounted') =>
                 UNCHANGED <<processingState, extractedFrame, generatedVideoUrl>>]_vars

(* C22: a generated video URL is held exactly when the status is completed. *)
C22_GeneratedIffCompleted ==
    mounted => (status = "completed" <=> generatedVideoUrl # NoUrl)

(* C23: every frame extractFirstFrame resolves with has width and height of
   at least 1; a video whose native width or height is 0 is not resolved. *)
C23_FrameHasArea ==
    \A i \in DOMAIN extractions :
        extractions[i].pc = "resolved" =>
            /\ videoWidth(extractions[i].file) # 0
            /\ videoHeight(extractions[i].file) # 0
            /\ extractions[i].frame.width >= 1
            /\ extractions[i].frame.height >= 1

====
